---- MODULE Spec2Model ----
(***************************************************************************)
(* Cohort pivot builders (retention and LTV), the CAC and break-even        *)
(* calculator with the break-even marks of the LTV table, the cohort key   *)
(* and month arithmetic, the ratio parser, and the observation boundary    *)
(* of the analytics dashboard.                                             *)
(*                                                                         *)
(* Strings are sequences of one-character strings, so that the split,      *)
(* parseInt and the code-unit comparisons of the source are computed.      *)
(* Retention ratios and LTV amounts are integers (hundredths / whole       *)
(* ledger units): the builders only copy and compare them.  Converted      *)
(* amounts are binary64 Numbers, rounded to nearest as the arithmetic of   *)
(* the source rounds them.                                                 *)
(***************************************************************************)
EXTENDS Integers, Sequences, FiniteSets, TLC

(* ------------------------------ bounds --------------------------------- *)

\* largest offset month m carried by a fact row
MaxM == 2

\* largest number of fact rows (retention and LTV together) held at once
MaxRows == 2

\* largest marketing spend (AED) and cohort size given to the CAC calculator
MaxSpend == 12

MaxSize == 8

\* largest offset of a cell and of maxMonth given to findBreakEvenMonth
MaxOffset == 2

\* the years of the cohort keys given to monthsDiff and parseCohortMonthKey
FirstYear == 2023

LastYear == 2025

\* the ratios given to parseRetention are n / 10^d for n up to MaxNumerator and d up to
\* MaxDecimals
MaxNumerator == 12

MaxDecimals == 3

(* ------------------------------ strings -------------------------------- *)

\* value of a decimal digit character
DigitOf ==
    "0" :> 0 @@ "1" :> 1 @@ "2" :> 2 @@ "3" :> 3 @@ "4" :> 4 @@
    "5" :> 5 @@ "6" :> 6 @@ "7" :> 7 @@ "8" :> 8 @@ "9" :> 9

DigitChars == {"0", "1", "2", "3", "4", "5", "6", "7", "8", "9"}

IsDigit(c) == c \in DigitChars

DigitValue(c) == DigitOf[c]

\* UTF-16 code unit of the characters that occur in keys
CharCode(c) == IF c = " " THEN 32 ELSE IF c = "-" THEN 45 ELSE 48 + DigitValue(c)

\* a < b on strings: comparison by code units, a proper prefix is smaller
StrLess(a, b) ==
    \E i \in 1..Len(b) :
        /\ \A j \in 1..(i - 1) : j <= Len(a) /\ a[j] = b[j]
        /\ (i > Len(a) \/ CharCode(a[i]) < CharCode(b[i]))

\* a.localeCompare(b): for digits and '-' the collation order is the code-unit order
localeCompare(a, b) == IF StrLess(a, b) THEN -1 ELSE IF StrLess(b, a) THEN 1 ELSE 0

\* index of the first occurrence of sep in s at or after position i, 0 when there is none
RECURSIVE IndexFrom(_, _, _)
IndexFrom(s, sep, i) ==
    IF i > Len(s) THEN 0
    ELSE IF s[i] = sep THEN i
    ELSE IndexFrom(s, sep, i + 1)

\* s.split(sep): "" splits into one empty part
RECURSIVE Split(_, _)
Split(s, sep) ==
    LET k == IndexFrom(s, sep, 1) IN
    IF k = 0 THEN <<s>>
    ELSE <<SubSeq(s, 1, k - 1)>> \o Split(SubSeq(s, k + 1, Len(s)), sep)

(* ------------------------------ numbers -------------------------------- *)

NaN == [finite |-> FALSE, value |-> 0]

Num(n) == [finite |-> TRUE, value |-> n]

RECURSIVE DigitsValue(_, _, _)
DigitsValue(s, i, acc) ==
    IF i > Len(s) \/ ~IsDigit(s[i]) THEN acc
    ELSE DigitsValue(s, i + 1, acc * 10 + DigitValue(s[i]))

RECURSIVE SkipSpaces(_, _)
SkipSpaces(s, i) == IF i <= Len(s) /\ s[i] = " " THEN SkipSpaces(s, i + 1) ELSE i

\* Number.parseInt(s, 10): leading blanks, an optional sign, the longest run of digits
parseInt(s) ==
    LET i0 == SkipSpaces(s, 1)
        neg == i0 <= Len(s) /\ s[i0] = "-"
        i1 == IF neg THEN i0 + 1 ELSE i0
    IN  IF i1 > Len(s) \/ ~IsDigit(s[i1]) THEN NaN
        ELSE Num((IF neg THEN -1 ELSE 1) * DigitsValue(s, i1, 0))

Max(a, b) == IF a >= b THEN a ELSE b

\* Math.max(0, ...xs)
RECURSIVE MaxOf(_, _, _)
MaxOf(xs, i, acc) == IF i > Len(xs) THEN acc ELSE MaxOf(xs, i + 1, Max(acc, xs[i]))

(* ------------------------- date/key arithmetic ------------------------- *)

\* destructuring [a, b] = key.split("-").map((part) => Number.parseInt(part, 10)):
\* a missing element is undefined, which is not finite
PartAt(parts, i) == IF i <= Len(parts) THEN parseInt(parts[i]) ELSE NaN

\* mutant: the difference is not clamped at 0
monthsDiffUnclamped(startKey, endKey) ==
    IF startKey = <<>> \/ endKey = <<>> THEN 0
    ELSE LET sp == Split(startKey, "-")
             ep == Split(endKey, "-")
             sy == PartAt(sp, 1)
             sm == PartAt(sp, 2)
             ey == PartAt(ep, 1)
             em == PartAt(ep, 2)
         IN  IF ~sy.finite \/ ~sm.finite \/ ~ey.finite \/ ~em.finite THEN 0
             ELSE (ey.value - sy.value) * 12 + (em.value - sm.value)

monthsDiff(startKey, endKey) ==
    IF startKey = <<>> \/ endKey = <<>> THEN 0
    ELSE LET sp == Split(startKey, "-")
             ep == Split(endKey, "-")
             sy == PartAt(sp, 1)
             sm == PartAt(sp, 2)
             ey == PartAt(ep, 1)
             em == PartAt(ep, 2)
         IN  IF ~sy.finite \/ ~sm.finite \/ ~ey.finite \/ ~em.finite THEN 0
             ELSE Max(0, (ey.value - sy.value) * 12 + (em.value - sm.value))

(* ------------------------------ fact rows ------------------------------ *)

\* the fields of RetentionRow / LtvRow that the builders read
RetentionRow(key, dimension, firstValue, m, metric, segment, size, retention) ==
    [cohortMonthKey |-> key, dimension |-> dimension, first_value |-> firstValue, m |-> m,
     metric |-> metric, segment |-> segment, cohort_size |-> size, retention |-> retention]

LtvRow(key, dimension, firstValue, m, metric, measure, segment, size, ltv) ==
    [cohortMonthKey |-> key, dimension |-> dimension, first_value |-> firstValue, m |-> m,
     metric |-> metric, measure |-> measure, segment |-> segment, cohort_size |-> size,
     ltv_per_user |-> ltv]

\* the `filters` argument of the builders (buildRetentionPivot does not read measure)
Filters(dimension, metric, segment, firstValue, startMonth, endMonth, measure) ==
    [dimension |-> dimension, metric |-> metric, segment |-> segment, firstValue |-> firstValue,
     startMonth |-> startMonth, endMonth |-> endMonth, measure |-> measure]

(* --------------------------- pivot: shared parts ----------------------- *)

\* position of the Map entry with this key, 0 when the Map has none
MapIndex(byMonth, key) ==
    IF \E i \in 1..Len(byMonth) : byMonth[i].key = key
    THEN CHOOSE i \in 1..Len(byMonth) : byMonth[i].key = key
    ELSE 0

\* mutant: a cell that is already set is kept
PutValueOnce(values, m, v) ==
    [x \in (DOMAIN values) \cup {m} |-> IF x \in DOMAIN values THEN values[x] ELSE v]

\* values[m] = v on a sparse Record<number, number | undefined>
PutValue(values, m, v) == [x \in (DOMAIN values) \cup {m} |-> IF x = m THEN v ELSE values[x]]

\* mutant: the size of a group follows the row read last
EnsureGroupLastSize(byMonth, row) ==
    LET g == MapIndex(byMonth, row.cohortMonthKey)
    IN  IF g # 0 THEN [byMonth EXCEPT ![g].size = row.cohort_size]
        ELSE Append(byMonth,
                    [key |-> row.cohortMonthKey, size |-> row.cohort_size, values |-> <<>>])

\* byMonth.has / byMonth.set of a new group: insertion order is kept
EnsureGroup(byMonth, row) ==
    IF MapIndex(byMonth, row.cohortMonthKey) # 0 THEN byMonth
    ELSE Append(byMonth, [key |-> row.cohortMonthKey, size |-> row.cohort_size, values |-> <<>>])

\* mutant: the cap is taken one month too far
TruncatedOffByOne(row, lastObservedMonth) ==
    lastObservedMonth # <<>> /\ row.m > monthsDiff(row.cohortMonthKey, lastObservedMonth) + 1

\* the row is past the last fully observed offset of its cohort (allowed is read only when
\* lastObservedMonth is non-empty, so Number.MAX_SAFE_INTEGER never decides)
Truncated(row, lastObservedMonth) ==
    lastObservedMonth # <<>> /\ row.m > monthsDiff(row.cohortMonthKey, lastObservedMonth)

\* Array.prototype.sort with the localeCompare comparator (stable): insertion sort
RECURSIVE InsertOrdered(_, _, _)
InsertOrdered(sorted, e, i) ==
    IF i > Len(sorted) THEN Append(sorted, e)
    ELSE IF localeCompare(e.cohortMonth, sorted[i].cohortMonth) < 0
         THEN SubSeq(sorted, 1, i - 1) \o <<e>> \o SubSeq(sorted, i, Len(sorted))
         ELSE InsertOrdered(sorted, e, i + 1)

RECURSIVE SortByCohortMonth(_, _, _)
SortByCohortMonth(entries, i, acc) ==
    IF i > Len(entries) THEN acc
    ELSE SortByCohortMonth(entries, i + 1, InsertOrdered(acc, entries[i], 1))

\* mutant: the groups are returned in insertion order
orderedRowsUnsorted(byMonth) ==
    [i \in 1..Len(byMonth) |->
        [cohortMonth |-> byMonth[i].key, cohortSize |-> byMonth[i].size,
         values |-> byMonth[i].values]]

\* mutant: a group without a cell is left out
orderedRowsWithCells(byMonth) ==
    SortByCohortMonth(
        [i \in 1..Len(SelectSeq(byMonth, LAMBDA group : group.values # <<>>)) |->
            LET group == SelectSeq(byMonth, LAMBDA g : g.values # <<>>)[i]
            IN  [cohortMonth |-> group.key, cohortSize |-> group.size, values |-> group.values]],
        1, <<>>)

\* Array.from(byMonth.entries()).map(...).sort(...)
orderedRows(byMonth) ==
    SortByCohortMonth(
        [i \in 1..Len(byMonth) |->
            [cohortMonth |-> byMonth[i].key, cohortSize |-> byMonth[i].size,
             values |-> byMonth[i].values]],
        1, <<>>)

\* mutant: the column count is always the largest offset of the facts
pivotMaxMonthOfFacts(filtered, lastObservedMonth) ==
    IF Len(filtered) # 0 THEN MaxOf([i \in 1..Len(filtered) |-> filtered[i].m], 1, 0) ELSE 0

\* mutant: with a boundary the column count is that of the first fact only
pivotMaxMonthOfFirst(filtered, lastObservedMonth) ==
    IF Len(filtered) # 0
    THEN IF lastObservedMonth # <<>>
         THEN Max(0, monthsDiff(filtered[1].cohortMonthKey, lastObservedMonth))
         ELSE MaxOf([i \in 1..Len(filtered) |-> filtered[i].m], 1, 0)
    ELSE 0

\* the maxMonth expression shared by both builders
pivotMaxMonth(filtered, lastObservedMonth) ==
    IF Len(filtered) # 0
    THEN IF lastObservedMonth # <<>>
         THEN MaxOf([i \in 1..Len(filtered) |->
                        monthsDiff(filtered[i].cohortMonthKey, lastObservedMonth)], 1, 0)
         ELSE MaxOf([i \in 1..Len(filtered) |-> filtered[i].m], 1, 0)
    ELSE 0

(* --------------------------- retention pivot --------------------------- *)

\* mutant: the check of the "ALL" sentinel for the overall dimension is missing
retentionKeepNoSentinel(row, filters) ==
    IF row.segment # filters.segment THEN FALSE
    ELSE IF row.dimension # filters.dimension THEN FALSE
    ELSE IF filters.dimension # "overall" /\ row.first_value # filters.firstValue THEN FALSE
    ELSE IF row.metric # filters.metric THEN FALSE
    ELSE IF filters.startMonth # <<>> /\ StrLess(row.cohortMonthKey, filters.startMonth) THEN FALSE
    ELSE IF filters.endMonth # <<>> /\ StrLess(filters.endMonth, row.cohortMonthKey) THEN FALSE
    ELSE TRUE

retentionKeep(row, filters) ==
    IF row.segment # filters.segment THEN FALSE
    ELSE IF row.dimension # filters.dimension THEN FALSE
    ELSE IF filters.dimension # "overall" /\ row.first_value # filters.firstValue THEN FALSE
    ELSE IF row.metric # filters.metric THEN FALSE
    ELSE IF filters.startMonth # <<>> /\ StrLess(row.cohortMonthKey, filters.startMonth) THEN FALSE
    ELSE IF filters.endMonth # <<>> /\ StrLess(filters.endMonth, row.cohortMonthKey) THEN FALSE
    ELSE IF filters.dimension = "overall" /\ row.first_value # "ALL" THEN FALSE
    ELSE TRUE

retentionFiltered(rows, filters) == SelectSeq(rows, LAMBDA row : retentionKeep(row, filters))

\* one turn of the loop over filtered
retentionRecord(byMonth, row, lastObservedMonth) ==
    LET groups == EnsureGroup(byMonth, row)
        g == MapIndex(groups, row.cohortMonthKey)
    IN  IF Truncated(row, lastObservedMonth) THEN groups
        ELSE [groups EXCEPT ![g].values = PutValue(@, row.m, row.retention)]

RECURSIVE retentionGroups(_, _, _, _)
retentionGroups(filtered, i, byMonth, lastObservedMonth) ==
    IF i > Len(filtered) THEN byMonth
    ELSE retentionGroups(filtered, i + 1,
                         retentionRecord(byMonth, filtered[i], lastObservedMonth),
                         lastObservedMonth)

\* mutant: the column count is computed from all rows instead of the filtered ones
buildRetentionPivotAllRows(rows, filters, lastObservedMonth) ==
    LET filtered == retentionFiltered(rows, filters)
        byMonth == retentionGroups(filtered, 1, <<>>, lastObservedMonth)
    IN  [rows |-> orderedRows(byMonth),
         maxMonth |-> pivotMaxMonth(rows, lastObservedMonth)]

buildRetentionPivot(rows, filters, lastObservedMonth) ==
    LET filtered == retentionFiltered(rows, filters)
        byMonth == retentionGroups(filtered, 1, <<>>, lastObservedMonth)
    IN  [rows |-> orderedRows(byMonth),
         maxMonth |-> pivotMaxMonth(filtered, lastObservedMonth)]

(* ------------------------------ LTV pivot ------------------------------ *)

\* mutant: the boundary test is > instead of >=
ltvKeepBoundaryInclusive(row, filters, lastObservedMonth) ==
    IF row.segment # filters.segment THEN FALSE
    ELSE IF row.dimension # filters.dimension THEN FALSE
    ELSE IF filters.dimension # "overall" /\ row.first_value # filters.firstValue THEN FALSE
    ELSE IF row.metric # filters.metric THEN FALSE
    ELSE IF row.measure # filters.measure THEN FALSE
    ELSE IF filters.startMonth # <<>> /\ StrLess(row.cohortMonthKey, filters.startMonth) THEN FALSE
    ELSE IF filters.endMonth # <<>> /\ StrLess(filters.endMonth, row.cohortMonthKey) THEN FALSE
    ELSE IF lastObservedMonth # <<>> /\ StrLess(lastObservedMonth, row.cohortMonthKey) THEN FALSE
    ELSE IF filters.dimension = "overall" /\ row.first_value # "ALL" THEN FALSE
    ELSE TRUE

ltvKeep(row, filters, lastObservedMonth) ==
    IF row.segment # filters.segment THEN FALSE
    ELSE IF row.dimension # filters.dimension THEN FALSE
    ELSE IF filters.dimension # "overall" /\ row.first_value # filters.firstValue THEN FALSE
    ELSE IF row.metric # filters.metric THEN FALSE
    ELSE IF row.measure # filters.measure THEN FALSE
    ELSE IF filters.startMonth # <<>> /\ StrLess(row.cohortMonthKey, filters.startMonth) THEN FALSE
    ELSE IF filters.endMonth # <<>> /\ StrLess(filters.endMonth, row.cohortMonthKey) THEN FALSE
    ELSE IF lastObservedMonth # <<>> /\ ~StrLess(row.cohortMonthKey, lastObservedMonth) THEN FALSE
    ELSE IF filters.dimension = "overall" /\ row.first_value # "ALL" THEN FALSE
    ELSE TRUE

ltvFiltered(rows, filters, lastObservedMonth) ==
    SelectSeq(rows, LAMBDA row : ltvKeep(row, filters, lastObservedMonth))

\* mutant: only negative values are skipped, a zero is stored
ltvRecordKeepsZero(acc, row, lastObservedMonth) ==
    LET groups == EnsureGroup(acc.byMonth, row)
        g == MapIndex(groups, row.cohortMonthKey)
    IN  IF Truncated(row, lastObservedMonth) THEN [acc EXCEPT !.byMonth = groups]
        ELSE IF row.ltv_per_user < 0 THEN [acc EXCEPT !.byMonth = groups]
        ELSE [byMonth |-> [groups EXCEPT ![g].values = PutValue(@, row.m, row.ltv_per_user)],
              maxValue |-> IF row.ltv_per_user > acc.maxValue THEN row.ltv_per_user
                           ELSE acc.maxValue]

\* mutant: maxValue is the value recorded last
ltvRecordLastValue(acc, row, lastObservedMonth) ==
    LET groups == EnsureGroup(acc.byMonth, row)
        g == MapIndex(groups, row.cohortMonthKey)
    IN  IF Truncated(row, lastObservedMonth) THEN [acc EXCEPT !.byMonth = groups]
        ELSE IF row.ltv_per_user <= 0 THEN [acc EXCEPT !.byMonth = groups]
        ELSE [byMonth |-> [groups EXCEPT ![g].values = PutValue(@, row.m, row.ltv_per_user)],
              maxValue |-> row.ltv_per_user]

\* one turn of the loop over filtered; acc = [byMonth, maxValue]
ltvRecord(acc, row, lastObservedMonth) ==
    LET groups == EnsureGroup(acc.byMonth, row)
        g == MapIndex(groups, row.cohortMonthKey)
    IN  IF Truncated(row, lastObservedMonth) THEN [acc EXCEPT !.byMonth = groups]
        ELSE IF row.ltv_per_user <= 0 THEN [acc EXCEPT !.byMonth = groups]
        ELSE [byMonth |-> [groups EXCEPT ![g].values = PutValue(@, row.m, row.ltv_per_user)],
              maxValue |-> IF row.ltv_per_user > acc.maxValue THEN row.ltv_per_user
                           ELSE acc.maxValue]

RECURSIVE ltvGroups(_, _, _, _)
ltvGroups(filtered, i, acc, lastObservedMonth) ==
    IF i > Len(filtered) THEN acc
    ELSE ltvGroups(filtered, i + 1, ltvRecord(acc, filtered[i], lastObservedMonth),
                   lastObservedMonth)

buildLtvPivot(rows, filters, lastObservedMonth) ==
    LET filtered == ltvFiltered(rows, filters, lastObservedMonth)
        acc == ltvGroups(filtered, 1, [byMonth |-> <<>>, maxValue |-> 0], lastObservedMonth)
    IN  [rows |-> orderedRows(acc.byMonth),
         maxMonth |-> pivotMaxMonth(filtered, lastObservedMonth),
         maxValue |-> acc.maxValue]

(* ------------------------- Numbers (binary64) -------------------------- *)

\* A finite Number >= 0 is zero or sig * 2^exp, where sig has SignificandBits bits of which
\* the top one is 1.  Bit strings are sequences of 0 and 1, least significant bit first.
SignificandBits == 53

\* extra quotient bits of a division, enough for divisors below 2^30
GuardBits == 32

Undefined == [defined |-> FALSE, zero |-> FALSE, sig |-> <<>>, exp |-> 0]

Zero == [defined |-> TRUE, zero |-> TRUE, sig |-> <<>>, exp |-> 0]

Double(sig, exp) == [defined |-> TRUE, zero |-> FALSE, sig |-> sig, exp |-> exp]

RECURSIVE BitsOfNat(_)
BitsOfNat(n) == IF n = 0 THEN <<>> ELSE <<n % 2>> \o BitsOfNat(n \div 2)

Zeros(n) == [i \in 1..n |-> 0]

\* the bits of hexadecimal digits given most significant digit first
RECURSIVE BitsOfHex(_, _)
BitsOfHex(digits, i) ==
    IF i = 0 THEN <<>>
    ELSE LET d == digits[i]
         IN  <<d % 2, (d \div 2) % 2, (d \div 4) % 2, d \div 8>> \o BitsOfHex(digits, i - 1)

\* without the zero bits above the top 1 bit
RECURSIVE Trim(_)
Trim(bits) ==
    IF bits # <<>> /\ bits[Len(bits)] = 0 THEN Trim(SubSeq(bits, 1, Len(bits) - 1)) ELSE bits

\* bits * k for a natural k, from bit i upwards (the carry stays below k)
RECURSIVE TimesNat(_, _, _, _)
TimesNat(bits, k, i, carry) ==
    IF i > Len(bits) \/ carry >= k THEN BitsOfNat(carry)
    ELSE LET t == bits[i] * k + carry
         IN  <<t % 2>> \o TimesNat(bits, k, i + 1, t \div 2)

\* quotient and remainder of bits by a natural k > 0: long division from bit i downwards
\* (the remainder stays below k)
RECURSIVE DivNat(_, _, _, _)
DivNat(bits, k, i, acc) ==
    IF i = 0 \/ acc.rem >= k THEN acc
    ELSE LET r == acc.rem * 2 + bits[i]
             q == IF r >= k THEN 1 ELSE 0
         IN  DivNat(bits, k, i - 1, [quot |-> <<q>> \o acc.quot, rem |-> r - q * k])

\* bits + 1
PlusOne(bits) ==
    IF \A i \in 1..Len(bits) : bits[i] = 1 THEN Append(Zeros(Len(bits)), 1)
    ELSE LET k == CHOOSE i \in 1..Len(bits) :
                      bits[i] = 0 /\ \A j \in 1..(i - 1) : bits[j] = 1
         IN  [i \in 1..Len(bits) |-> IF i < k THEN 0 ELSE IF i = k THEN 1 ELSE bits[i]]

\* round to nearest, ties to even: the Number nearest to (bits + f) * 2^exp, where the top
\* bit of bits is 1, 0 <= f < 1, and f > 0 exactly if inexact
RoundNearestEven(bits, exp, inexact) ==
    LET s == Len(bits) - SignificandBits
    IN  IF s <= 0 THEN Double(Zeros(-s) \o bits, exp + s)
        ELSE LET kept == SubSeq(bits, s + 1, Len(bits))
                 below == inexact \/ \E i \in 1..(s - 1) : bits[i] = 1
                 up == bits[s] = 1 /\ (below \/ kept[1] = 1)
                 sum == IF up THEN PlusOne(kept) ELSE kept
             IN  IF Len(sum) > SignificandBits
                 THEN Double(SubSeq(sum, 2, Len(sum)), exp + s + 1)
                 ELSE Double(sum, exp + s)

\* the Number of a natural
ToNumber(n) == IF n = 0 THEN Zero ELSE RoundNearestEven(BitsOfNat(n), 0, FALSE)

\* a * n and a / n for a Number a and an integer-valued Number n (n > 0 for the division)
Times(a, n) ==
    IF a.zero \/ n = 0 THEN Zero
    ELSE RoundNearestEven(Trim(TimesNat(a.sig, n, 1, 0)), a.exp, FALSE)

DividedBy(a, n) ==
    IF a.zero THEN Zero
    ELSE LET qr == DivNat(Zeros(GuardBits) \o a.sig, n, GuardBits + Len(a.sig),
                          [quot |-> <<>>, rem |-> 0])
         IN  RoundNearestEven(Trim(qr.quot), a.exp - GuardBits, qr.rem # 0)

\* a >= b
GreaterOrEqual(a, b) ==
    IF b.zero THEN TRUE
    ELSE IF a.zero THEN FALSE
    ELSE IF a.exp # b.exp THEN a.exp > b.exp
    ELSE ~\E i \in 1..SignificandBits :
            /\ a.sig[i] < b.sig[i]
            /\ \A j \in (i + 1)..SignificandBits : a.sig[j] = b.sig[j]

(* ---------------------------- CAC calculator --------------------------- *)

\* 1 / 3.6725 evaluates to the Number 0x1.16d44238cfba5p-2 = 0x116d44238cfba5 * 2^-54
AED_TO_USD ==
    Double(Trim(BitsOfHex(<<1, 1, 6, 13, 4, 4, 2, 3, 8, 12, 15, 11, 10, 5>>, 14)), -54)

Spend(n) == [defined |-> TRUE, value |-> n]

NoSpend == [defined |-> FALSE, value |-> 0]

\* mutant: the value is returned as it is
aedToUsdUnconverted(aedValue) == ToNumber(aedValue)

\* aedValue * AED_TO_USD; the amounts of the model are whole ledger units
aedToUsd(aedValue) == Times(AED_TO_USD, aedValue)

\* mutant: the guard is !spendAed, so a spend of 0 counts as unknown
calculateCacUsdFalsySpend(spendAed, cohortSize) ==
    IF ~spendAed.defined \/ spendAed.value = 0 \/ cohortSize <= 0 THEN Undefined
    ELSE DividedBy(aedToUsd(spendAed.value), cohortSize)

calculateCacUsd(spendAed, cohortSize) ==
    IF ~spendAed.defined \/ cohortSize <= 0 THEN Undefined
    ELSE DividedBy(aedToUsd(spendAed.value), cohortSize)

(* ------------------------------ break-even ---------------------------- *)

\* a month offset, or undefined
Month(m) == [defined |-> TRUE, value |-> m]

NoMonth == [defined |-> FALSE, value |-> 0]

\* mutant: the comparison is strict, equality does not qualify
RECURSIVE breakEvenScanStrict(_, _, _, _)
breakEvenScanStrict(values, cacUsd, maxMonth, m) ==
    IF m > maxMonth THEN NoMonth
    ELSE IF m \in DOMAIN values /\ ~GreaterOrEqual(cacUsd, aedToUsd(values[m])) THEN Month(m)
    ELSE breakEvenScanStrict(values, cacUsd, maxMonth, m + 1)

\* mutant: an absent cell counts as a value of 0
RECURSIVE breakEvenScanAbsentAsZero(_, _, _, _)
breakEvenScanAbsentAsZero(values, cacUsd, maxMonth, m) ==
    IF m > maxMonth THEN NoMonth
    ELSE IF GreaterOrEqual(IF m \in DOMAIN values THEN aedToUsd(values[m]) ELSE Zero, cacUsd)
         THEN Month(m)
    ELSE breakEvenScanAbsentAsZero(values, cacUsd, maxMonth, m + 1)

\* the loop of findBreakEvenMonth from offset m on; values[m] is undefined outside DOMAIN values
RECURSIVE breakEvenScan(_, _, _, _)
breakEvenScan(values, cacUsd, maxMonth, m) ==
    IF m > maxMonth THEN NoMonth
    ELSE IF m \in DOMAIN values /\ GreaterOrEqual(aedToUsd(values[m]), cacUsd) THEN Month(m)
    ELSE breakEvenScan(values, cacUsd, maxMonth, m + 1)

\* mutant: an unknown CAC counts as a CAC of zero
findBreakEvenMonthZeroCac(values, cacUsd, maxMonth) ==
    breakEvenScan(values, IF cacUsd.defined THEN cacUsd ELSE Zero, maxMonth, 0)

findBreakEvenMonth(values, cacUsd, maxMonth) ==
    IF ~cacUsd.defined THEN NoMonth
    ELSE breakEvenScan(values, cacUsd, maxMonth, 0)

\* mutant: the cell is compared as it is stored, without the conversion
isBreakEvenUnconverted(values, cacUsd, month) ==
    /\ cacUsd.defined
    /\ month \in DOMAIN values
    /\ GreaterOrEqual(ToNumber(values[month]), cacUsd)

\* the test of a cell of LtvHeatmap: row.values[month] is undefined outside DOMAIN values
isBreakEven(values, cacUsd, month) ==
    /\ cacUsd.defined
    /\ month \in DOMAIN values
    /\ GreaterOrEqual(aedToUsd(values[month]), cacUsd)

\* the marketingSpend prop: not supplied, or a table from cohort month to spend
NoTable == [supplied |-> FALSE, spend |-> <<>>]

Table(spend) == [supplied |-> TRUE, spend |-> spend]

\* marketingSpend?.[cohortMonth]
spendOf(marketingSpend, cohortMonth) ==
    IF marketingSpend.supplied /\ cohortMonth \in DOMAIN marketingSpend.spend
    THEN Spend(marketingSpend.spend[cohortMonth])
    ELSE NoSpend

(* ------------------------------ dates and keys ------------------------- *)

\* String(n) of an integer
RECURSIVE DigitsOf(_)
DigitsOf(n) ==
    LET d == CHOOSE c \in DigitChars : DigitValue(c) = n % 10
    IN  IF n < 10 THEN <<d>> ELSE Append(DigitsOf(n \div 10), d)

NumberToString(n) == IF n < 0 THEN <<"-">> \o DigitsOf(-n) ELSE DigitsOf(n)

\* s.padStart(2, "0")
padStart(s) == IF Len(s) >= 2 THEN s ELSE [i \in 1..(2 - Len(s)) |-> "0"] \o s

\* s.trim(), for blanks
RECURSIVE trim(_)
trim(s) ==
    IF s # <<>> /\ s[1] = " " THEN trim(Tail(s))
    ELSE IF s # <<>> /\ s[Len(s)] = " " THEN trim(SubSeq(s, 1, Len(s) - 1))
    ELSE s

\* new Date(NaN)
InvalidDate == [valid |-> FALSE, year |-> 0, month |-> 0]

\* new Date(year, monthIndex, 1) in local time: a year of 0..99 means 1900 + year, and a
\* month index outside 0..11 carries into the year
Date(year, monthIndex) ==
    LET full == IF 0 <= year /\ year <= 99 THEN 1900 + year ELSE year
    IN  [valid |-> TRUE, year |-> full + (monthIndex \div 12), month |-> monthIndex % 12]

monthKeyFromDate(date) ==
    NumberToString(date.year) \o <<"-">> \o padStart(NumberToString(date.month + 1))

addMonths(date, months) == Date(date.year, date.month + months)

\* the result of a call: returned value, or an exception
Thrown == [threw |-> TRUE, date |-> InvalidDate, key |-> <<>>]

Returned(date, key) == [threw |-> FALSE, date |-> date, key |-> key]

\* mutant: an unparsable month counts as January
parseCohortMonthKeyDefaultMonth(raw) ==
    LET dateStr == trim(Split(raw, " ")[1])
        parts == Split(dateStr, "-")
        y == PartAt(parts, 1)
    IN  IF ~y.finite THEN Returned(InvalidDate, <<>>)
        ELSE Returned(Date(y.value, 0), NumberToString(y.value) \o <<"-", "0", "1">>)

\* raw.split(" ")[0]?.trim() is undefined when the split has no first part, and
\* dateStr.split then throws; [year = "", month = ""] are "" for a missing part
parseCohortMonthKey(raw) ==
    LET first == Split(raw, " ")
    IN  IF Len(first) = 0 THEN Thrown
        ELSE LET parts == Split(trim(first[1]), "-")
                 y == parseInt(IF Len(parts) >= 1 THEN parts[1] ELSE <<>>)
                 m == parseInt(IF Len(parts) >= 2 THEN parts[2] ELSE <<>>)
             IN  IF ~y.finite \/ ~m.finite THEN Returned(InvalidDate, <<>>)
                 ELSE Returned(Date(y.value, m.value - 1),
                               NumberToString(y.value) \o <<"-">> \o padStart(NumberToString(m.value)))

\* String(value ?? "") of a string value is the value
isValidCohort(value) ==
    LET cleaned == trim(value)
        datePart == Split(cleaned, " ")[1]
        segments == Split(datePart, "-")
    IN  Len(segments) >= 2 /\ Len(segments[1]) = 4 /\ Len(segments[2]) = 2

(* ------------------------------ parseRetention ------------------------- *)

\* a Number with its sign, NaN, or an infinity
Finite(neg, mag) == [kind |-> "finite", neg |-> neg, mag |-> mag]

NotANumber == [kind |-> "nan", neg |-> FALSE, mag |-> Zero]

Infinite(neg) == [kind |-> "infinite", neg |-> neg, mag |-> Zero]

\* the position after the run of digits that starts at position i
RECURSIVE DigitsEnd(_, _)
DigitsEnd(s, i) == IF i <= Len(s) /\ IsDigit(s[i]) THEN DigitsEnd(s, i + 1) ELSE i

RECURSIVE PowerOfTen(_)
PowerOfTen(n) == IF n = 0 THEN 1 ELSE 10 * PowerOfTen(n - 1)

\* the Number nearest to n * 10^power, for a natural n and at most nine decimals
Decimal(n, power) ==
    IF power >= 0 THEN Times(ToNumber(n), PowerOfTen(power))
    ELSE DividedBy(ToNumber(n), PowerOfTen(-power))

\* Number.parseFloat(s): leading blanks, then the longest prefix that is a decimal literal:
\* an optional sign, "Infinity" or digits with an optional point and an optional exponent
parseFloat(s) ==
    LET i0 == SkipSpaces(s, 1)
        signed == i0 <= Len(s) /\ s[i0] \in {"-", "+"}
        neg == signed /\ s[i0] = "-"
        i1 == IF signed THEN i0 + 1 ELSE i0
        i2 == DigitsEnd(s, i1)
        point == i2 <= Len(s) /\ s[i2] = "."
        i3 == IF point THEN DigitsEnd(s, i2 + 1) ELSE i2
        digits == SubSeq(s, i1, i2 - 1) \o SubSeq(s, i2 + 1, i3 - 1)
        decimals == IF point THEN i3 - (i2 + 1) ELSE 0
        hasExponent == i3 <= Len(s) /\ s[i3] \in {"e", "E"}
        eSigned == hasExponent /\ i3 + 1 <= Len(s) /\ s[i3 + 1] \in {"-", "+"}
        j1 == IF eSigned THEN i3 + 2 ELSE i3 + 1
        exponent == IF hasExponent /\ DigitsEnd(s, j1) > j1
                    THEN (IF eSigned /\ s[i3 + 1] = "-" THEN -1 ELSE 1) * DigitsValue(s, j1, 0)
                    ELSE 0
    IN  IF i1 + 7 <= Len(s) /\ SubSeq(s, i1, i1 + 7) = <<"I", "n", "f", "i", "n", "i", "t", "y">>
        THEN Infinite(neg)
        ELSE IF digits = <<>> THEN NotANumber
        ELSE Finite(neg, Decimal(DigitsValue(digits, 1, 0), exponent - decimals))

\* a value of type unknown: a number, a string, or anything else (null, undefined, ...)
NumberValue(number) == [type |-> "number", number |-> number, string |-> <<>>]

StringValue(string) == [type |-> "string", number |-> NotANumber, string |-> string]

OtherValue == [type |-> "object", number |-> NotANumber, string |-> <<>>]

\* mutant: the percentage is returned as it was parsed
parseRetentionUnscaled(val) ==
    IF val.type = "number"
    THEN IF val.number.kind = "finite" THEN val.number ELSE Finite(FALSE, Zero)
    ELSE IF val.type = "string"
    THEN LET trimmed == trim(val.string)
         IN  IF trimmed = <<>> THEN Finite(FALSE, Zero)
             ELSE LET numeric == parseFloat(IF trimmed[Len(trimmed)] = "%"
                                             THEN SubSeq(trimmed, 1, Len(trimmed) - 1)
                                             ELSE trimmed)
                  IN  IF numeric.kind = "finite" THEN numeric ELSE Finite(FALSE, Zero)
    ELSE Finite(FALSE, Zero)

parseRetention(val) ==
    IF val.type = "number"
    THEN IF val.number.kind = "finite" THEN val.number ELSE Finite(FALSE, Zero)
    ELSE IF val.type = "string"
    THEN LET trimmed == trim(val.string)
         IN  IF trimmed = <<>> THEN Finite(FALSE, Zero)
             ELSE IF trimmed[Len(trimmed)] = "%"
             THEN LET pct == parseFloat(SubSeq(trimmed, 1, Len(trimmed) - 1))
                  IN  IF pct.kind = "finite" THEN Finite(pct.neg, DividedBy(pct.mag, 100))
                      ELSE Finite(FALSE, Zero)
             ELSE LET numeric == parseFloat(trimmed)
                  IN  IF numeric.kind = "finite" THEN numeric ELSE Finite(FALSE, Zero)
    ELSE Finite(FALSE, Zero)

(* ------------------------- observation boundary ------------------------ *)

\* cohortZero.reduce((latest, row) => row.cohortMonthKey > latest ? row.cohortMonthKey : latest, "")
RECURSIVE latestKey(_, _, _)
latestKey(cohortZero, i, latest) ==
    IF i > Len(cohortZero) THEN latest
    ELSE latestKey(cohortZero, i + 1,
                   IF StrLess(latest, cohortZero[i].cohortMonthKey)
                   THEN cohortZero[i].cohortMonthKey ELSE latest)

\* mutant: the boundary is the last cohort month itself
lastObservedRetentionMonthSame(retentionRows) ==
    latestKey(SelectSeq(retentionRows, LAMBDA row : row.m = 0), 1, <<>>)

lastObservedRetentionMonth(retentionRows) ==
    LET cohortZero == SelectSeq(retentionRows, LAMBDA row : row.m = 0)
        lastKey == latestKey(cohortZero, 1, <<>>)
        parts == Split(lastKey, "-")
        year == PartAt(parts, 1)
        month == PartAt(parts, 2)
    IN  IF Len(cohortZero) = 0 THEN <<>>
        ELSE IF lastKey = <<>> THEN <<>>
        ELSE IF ~year.finite \/ ~month.finite THEN <<>>
        ELSE monthKeyFromDate(addMonths(Date(year.value, month.value - 1), 1))

(* ------------------------------- inputs -------------------------------- *)

NoKey == <<>>

Key2024_12 == <<"2", "0", "2", "4", "-", "1", "2">>

Key2025_01 == <<"2", "0", "2", "5", "-", "0", "1">>

Key2025_02 == <<"2", "0", "2", "5", "-", "0", "2">>

\* cohort month keys of the fact rows: a malformed date parses to the empty key
CohortKeys == {NoKey, Key2024_12, Key2025_01}

\* values of lastObservedMonth: unknown, at a cohort, past every cohort
Boundaries == {NoKey, Key2024_12, Key2025_02}

\* (startMonth, endMonth) selections
MonthRanges == {<<NoKey, NoKey>>, <<Key2025_01, NoKey>>, <<NoKey, Key2024_12>>}

DefaultFilters == Filters("overall", "any", "all", "ALL", NoKey, NoKey, "revenue")

\* Retention facts: for the view selected by DefaultFilters one fact (size 1, ratio 0.50) per
\* cohort and offset and a second export of cohort 2024-12 (first and last offset) with
\* another size and ratio; and one fact of another segment
RetentionFacts ==
    {RetentionRow(k, "overall", "ALL", m, "any", "all", 1, 50) : k \in CohortKeys, m \in 0..MaxM}
    \cup {RetentionRow(Key2024_12, "overall", "ALL", m, "any", "all", 2, 100) : m \in {0, MaxM}}
    \cup {RetentionRow(Key2024_12, "overall", "ALL", MaxM, "any", "subscribers", 1, 50)}

\* LTV facts: for the same view one fact (size 1, value 2) per cohort and offset and, for
\* cohort 2024-12 (first and last offset), a second export (size 2, value 1) and an empty
\* one (value 0); and one fact of another segment
LtvFacts ==
    {LtvRow(k, "overall", "ALL", m, "any", "revenue", "all", 1, 2) :
        k \in CohortKeys, m \in 0..MaxM}
    \cup {LtvRow(Key2024_12, "overall", "ALL", m, "any", "revenue", "all", 2, v) :
            m \in {0, MaxM}, v \in {0, 1}}
    \cup {LtvRow(Key2024_12, "overall", "ALL", MaxM, "any", "revenue", "subscribers", 1, 2)}

\* (segment, dimension, first_value, metric, measure) of a fact: the default view and the
\* views that differ from it in one field (two for a category value)
FactViews ==
    {<<"all", "overall", "ALL", "any", "revenue">>,
     <<"subscribers", "overall", "ALL", "any", "revenue">>,
     <<"all", "category", "ALL", "any", "revenue">>,
     <<"all", "category", "A", "any", "revenue">>,
     <<"all", "overall", "A", "any", "revenue">>,
     <<"all", "overall", "ALL", "same", "revenue">>,
     <<"all", "overall", "ALL", "any", "gm">>}

\* one-row fact sets for the filter: every view at every cohort key
SingleRetentionFacts ==
    {<<RetentionRow(k, v[2], v[3], 0, v[4], v[1], 1, 50)>> : k \in CohortKeys, v \in FactViews}

SingleLtvFacts ==
    {<<LtvRow(k, v[2], v[3], 0, v[4], v[5], v[1], 1, 2)>> : k \in CohortKeys, v \in FactViews}

\* filter selections: dimension and dimension value, with a month range
FilterChoices ==
    {Filters(d, "any", "all", fv, range[1], range[2], "revenue") :
        d \in {"overall", "category"}, fv \in {"ALL", "A"}, range \in MonthRanges}

SpendInputs == {NoSpend} \cup {Spend(n) : n \in 0..MaxSpend}

SizeInputs == -1..MaxSize

\* Record<number, number | undefined>: each offset up to MaxOffset absent or one of cells
SparseValues(cells) ==
    UNION {[offsets -> cells] : offsets \in SUBSET (0..MaxOffset)}

\* arguments of findBreakEvenMonth: cumulative values 100, 250, 400 in any cell
ValueInputs == SparseValues({100, 250, 400})

\* an unknown CAC, a CAC of 0, of 260 and of 500, and the amounts that 250, 260 and 500
\* ledger units convert to
CacInputs ==
    {Undefined, Zero, ToNumber(260), ToNumber(500), aedToUsd(250), aedToUsd(260), aedToUsd(500)}

\* rows of the LTV table: cohorts of size 0, 1 and 3 with cells of 1 and 5
HeatmapCohorts == {Key2024_12, Key2025_01}

HeatmapSizes == {0, 1, 3}

HeatmapValues == SparseValues({1, 5})

\* the marketingSpend prop: none, an empty table, and tables that know cohort 2024-12
SpendTables ==
    {NoTable, Table(<<>>)}
    \cup {Table(Key2024_12 :> n) : n \in {0, 3, 15, 16}}

\* the key of a year and a month, as a "YYYY-MM" string
KeyOf(year, month) == NumberToString(year) \o <<"-">> \o padStart(NumberToString(month))

ValidKeys == {KeyOf(y, m) : y \in FirstYear..LastYear, m \in 1..12}

\* keys without a year or month number
UnparsableKeys ==
    {NoKey,
     <<"2", "0", "2", "4">>,
     <<"2", "0", "2", "4", "-">>,
     <<"2", "0", "2", "4", "-", "x", "x">>,
     <<"x", "-", "0", "1">>}

KeyInputs == ValidKeys \cup UnparsableKeys

\* year and month as text: bare, or zero-padded to 4 and 2 digits
ZeroPadded(s, width) == [i \in 1..(width - Len(s)) |-> "0"] \o s

\* raw cohort dates of a year and a month 0..13: "Y-M", "YYYY-MM", "YYYY-MM-01" and
\* "YYYY-MM-01 00:00:00"
RawDatesOf(year, month) ==
    LET bare == NumberToString(year) \o <<"-">> \o NumberToString(month)
        padded == ZeroPadded(NumberToString(year), 4) \o <<"-">>
                    \o ZeroPadded(NumberToString(month), 2)
        day == padded \o <<"-", "0", "1">>
    IN  {bare, padded, day, day \o <<" ", "0", "0", ":", "0", "0", ":", "0", "0">>}

\* raw values without a year or month number
MalformedRawDates ==
    {<<>>,
     <<" ", "2", "0", "2", "4", "-", "0", "1">>,
     <<"2", "0", "2", "4">>,
     <<"2", "0", "2", "4", "/", "0", "1", "/", "0", "5">>,
     <<"2", "0", "2", "4", "-", "x", "x">>,
     <<"-", "0", "1">>,
     <<"n", "/", "a">>}

\* years of the raw dates: three digits, and the years of the keys
RawYears == {999} \cup (FirstYear..LastYear)

RawInputs ==
    (UNION {RawDatesOf(y, m) : y \in RawYears, m \in 0..13}) \cup MalformedRawDates

\* ratios n / 10^decimals given to parseRetention, with a sign; n has no trailing zero
\* decimal, so that the texts below are the ones String(r) and String(100 * r) produce
Ratios ==
    {r \in [neg : BOOLEAN, n : 0..MaxNumerator, decimals : 0..MaxDecimals] :
        (r.decimals = 0 \/ r.n % 10 # 0) /\ (r.neg => r.n > 0)}

SignText(neg) == IF neg THEN <<"-">> ELSE <<>>

\* the decimal text of n / 10^decimals (decimals may be negative)
DecimalText(n, decimals) ==
    IF decimals <= 0 THEN DigitsOf(n * PowerOfTen(-decimals))
    ELSE LET ds == DigitsOf(n)
             padded == [i \in 1..(decimals + 1 - Len(ds)) |-> "0"] \o ds
             whole == Len(padded) - decimals
         IN  SubSeq(padded, 1, whole) \o <<".">> \o SubSeq(padded, whole + 1, Len(padded))

\* the three forms in which a ratio r arrives: the number, its text, and the text of 100 * r
\* followed by "%"
AsNumber(r) == NumberValue(Finite(r.neg, Decimal(r.n, -r.decimals)))

AsString(r) == StringValue(SignText(r.neg) \o DecimalText(r.n, r.decimals))

AsPercent(r) == StringValue(SignText(r.neg) \o DecimalText(r.n, r.decimals - 2) \o <<"%">>)

FormsOf(r) == {AsNumber(r), AsString(r), AsPercent(r)}

\* values that are no ratio, and ratios in other spellings
OtherRetentionInputs ==
    {OtherValue,
     NumberValue(NotANumber),
     NumberValue(Infinite(FALSE)),
     StringValue(<<>>),
     StringValue(<<" ", " ">>),
     StringValue(<<"%">>),
     StringValue(<<"n", "/", "a">>),
     StringValue(<<"n", "/", "a", "%">>),
     StringValue(<<"I", "n", "f", "i", "n", "i", "t", "y">>),
     StringValue(<<"-", "I", "n", "f", "i", "n", "i", "t", "y", "%">>),
     StringValue(<<" ", "5", "0", "%", " ">>),
     StringValue(<<"5", "0", " ", "%">>),
     StringValue(<<"+", "5", "0", ".", "%">>),
     StringValue(<<".", "5">>),
     StringValue(<<"5", "e", "-", "1">>),
     StringValue(<<"5", "E", "1", "%">>),
     StringValue(<<"5", "e", "%">>),
     StringValue(<<"0", ".", "5", "x">>)}

RetentionInputs == (UNION {FormsOf(r) : r \in Ratios}) \cup OtherRetentionInputs

(* -------------------------------- state -------------------------------- *)

VARIABLES
    retentionRows,      \* rows of useRetentionData
    ltvRows,            \* rows of useLtvData
    filters,            \* the selected criteria
    lastObservedMonth,  \* the observation boundary handed to both builders
    retentionPivot,     \* useMemo(buildRetentionPivot)
    ltvPivot,           \* useMemo(buildLtvPivot)
    spendAed,           \* arguments and result of the last calculateCacUsd call
    cohortSize,
    cacUsd,
    cohortMonth,        \* the row of the LTV table being rendered: row.cohortMonth,
    values,             \*   row.values (row.cohortSize is cohortSize)
    maxMonth,           \* the column count of the LTV table
    marketingSpend,     \* the marketingSpend prop
    breakEvenMonth,     \* result of findBreakEvenMonth
    breakEvenCells,     \* the columns of the row whose cell is marked isBreakEven
    startKey,           \* arguments and result of a monthsDiff call
    endKey,
    months,
    raw,                \* argument and result of a parseCohortMonthKey call
    parsed,
    val,                \* argument and result of a parseRetention call
    ratio,
    called              \* the call under study has returned

vars == <<retentionRows, ltvRows, filters, lastObservedMonth, retentionPivot, ltvPivot,
          spendAed, cohortSize, cacUsd, cohortMonth, values, maxMonth, marketingSpend,
          breakEvenMonth, breakEvenCells, startKey, endKey, months, raw, parsed, val, ratio,
          called>>

pivotVars == <<retentionRows, ltvRows, filters, lastObservedMonth, retentionPivot, ltvPivot>>

cacVars == <<spendAed, cohortSize, cacUsd>>

tableVars == <<cohortMonth, values, maxMonth, marketingSpend, breakEvenMonth, breakEvenCells>>

keyVars == <<startKey, endKey, months, raw, parsed>>

ratioVars == <<val, ratio>>

\* useMemo: a pivot is rebuilt when one of its inputs changed, and kept otherwise
RenderRetention ==
    retentionPivot' = buildRetentionPivot(retentionRows', filters', lastObservedMonth')

RenderLtv ==
    ltvPivot' = buildLtvPivot(ltvRows', filters', lastObservedMonth')

NoCacCall ==
    /\ spendAed = NoSpend
    /\ cohortSize = 0
    /\ cacUsd = Undefined

NoTableRow ==
    /\ cohortMonth = NoKey
    /\ values = <<>>
    /\ maxMonth = 0
    /\ marketingSpend = NoTable
    /\ breakEvenMonth = NoMonth
    /\ breakEvenCells = {}

NoMonthsDiffCall ==
    /\ startKey = NoKey
    /\ endKey = NoKey
    /\ months = 0

NoParseCall ==
    /\ raw = <<>>
    /\ parsed = Returned(InvalidDate, NoKey)

NoRetentionCall ==
    /\ val = OtherValue
    /\ ratio = Finite(FALSE, Zero)

NoPivots ==
    /\ retentionRows = <<>>
    /\ ltvRows = <<>>
    /\ filters = DefaultFilters
    /\ lastObservedMonth = NoKey
    /\ retentionPivot = buildRetentionPivot(<<>>, DefaultFilters, NoKey)
    /\ ltvPivot = buildLtvPivot(<<>>, DefaultFilters, NoKey)

Init ==
    /\ retentionRows = <<>>
    /\ ltvRows = <<>>
    /\ filters = DefaultFilters
    /\ lastObservedMonth = NoKey
    /\ retentionPivot = buildRetentionPivot(<<>>, DefaultFilters, NoKey)
    /\ ltvPivot = buildLtvPivot(<<>>, DefaultFilters, NoKey)
    /\ NoCacCall
    /\ NoTableRow
    /\ NoMonthsDiffCall
    /\ NoParseCall
    /\ NoRetentionCall
    /\ called = FALSE

ReceiveRetentionRow(row) ==
    /\ Len(retentionRows) + Len(ltvRows) < MaxRows
    /\ retentionRows' = Append(retentionRows, row)
    /\ UNCHANGED <<ltvRows, filters, lastObservedMonth, ltvPivot, cacVars, tableVars, keyVars, ratioVars,
                   called>>
    /\ RenderRetention

ReceiveLtvRow(row) ==
    /\ Len(retentionRows) + Len(ltvRows) < MaxRows
    /\ ltvRows' = Append(ltvRows, row)
    /\ UNCHANGED <<retentionRows, filters, lastObservedMonth, retentionPivot, cacVars, tableVars,
                   keyVars, ratioVars, called>>
    /\ RenderLtv

SetFilters(f) ==
    /\ filters' = f
    /\ UNCHANGED <<retentionRows, ltvRows, lastObservedMonth, cacVars, tableVars, keyVars, ratioVars, called>>
    /\ RenderRetention
    /\ RenderLtv

SetLastObservedMonth(boundary) ==
    /\ lastObservedMonth' = boundary
    /\ UNCHANGED <<retentionRows, ltvRows, filters, cacVars, tableVars, keyVars, ratioVars, called>>
    /\ RenderRetention
    /\ RenderLtv

Next ==
    \/ \E row \in RetentionFacts : ReceiveRetentionRow(row)
    \/ \E row \in LtvFacts : ReceiveLtvRow(row)
    \/ \E boundary \in Boundaries : SetLastObservedMonth(boundary)

Spec == Init /\ [][Next]_vars

(* The filter on its own: a single fact under every filter selection and boundary *)

InitFilter ==
    /\ \/ retentionRows \in SingleRetentionFacts /\ ltvRows = <<>>
       \/ retentionRows = <<>> /\ ltvRows \in SingleLtvFacts
    /\ filters = DefaultFilters
    /\ lastObservedMonth = NoKey
    /\ retentionPivot = buildRetentionPivot(retentionRows, DefaultFilters, NoKey)
    /\ ltvPivot = buildLtvPivot(ltvRows, DefaultFilters, NoKey)
    /\ NoCacCall
    /\ NoTableRow
    /\ NoMonthsDiffCall
    /\ NoParseCall
    /\ NoRetentionCall
    /\ called = FALSE

NextFilter ==
    \/ \E f \in FilterChoices : SetFilters(f)
    \/ \E boundary \in Boundaries : SetLastObservedMonth(boundary)

SpecFilter == InitFilter /\ [][NextFilter]_vars

(* The CAC calculator on its own *)

CalculateCac(spend, size) ==
    /\ spendAed' = spend
    /\ cohortSize' = size
    /\ cacUsd' = calculateCacUsd(spend, size)
    /\ UNCHANGED <<pivotVars, tableVars, keyVars, ratioVars, called>>

NextCac == \E spend \in SpendInputs, size \in SizeInputs : CalculateCac(spend, size)

SpecCac == Init /\ [][NextCac]_vars


(* findBreakEvenMonth on its own: the arguments are drawn, the call is made once *)

InitBreakEven ==
    /\ NoPivots
    /\ spendAed = NoSpend
    /\ cohortSize = 0
    /\ cacUsd \in CacInputs
    /\ cohortMonth = NoKey
    /\ values \in ValueInputs
    /\ maxMonth \in 0..MaxOffset
    /\ marketingSpend = NoTable
    /\ breakEvenMonth = NoMonth
    /\ breakEvenCells = {}
    /\ NoMonthsDiffCall
    /\ NoParseCall
    /\ NoRetentionCall
    /\ called = FALSE

FindBreakEven ==
    /\ ~called
    /\ breakEvenMonth' = findBreakEvenMonth(values, cacUsd, maxMonth)
    /\ called' = TRUE
    /\ UNCHANGED <<pivotVars, cacVars, cohortMonth, values, maxMonth, marketingSpend,
                   breakEvenCells, keyVars, ratioVars>>

NextBreakEven == FindBreakEven

SpecBreakEven == InitBreakEven /\ [][NextBreakEven]_vars

(* A row of the LTV table: the callback of rows.map in LtvHeatmap.  maxMonth is the     *)
(* column count of the pivot, which no cell of a row exceeds.                            *)

InitTable ==
    /\ NoPivots
    /\ spendAed = NoSpend
    /\ cohortSize \in HeatmapSizes
    /\ cacUsd = Undefined
    /\ cohortMonth \in HeatmapCohorts
    /\ values \in HeatmapValues
    /\ maxMonth \in 0..MaxOffset
    /\ \A m \in DOMAIN values : m <= maxMonth
    /\ marketingSpend \in SpendTables
    /\ breakEvenMonth = NoMonth
    /\ breakEvenCells = {}
    /\ NoMonthsDiffCall
    /\ NoParseCall
    /\ NoRetentionCall
    /\ called = FALSE

RenderLtvRow ==
    /\ ~called
    /\ spendAed' = spendOf(marketingSpend, cohortMonth)
    /\ cacUsd' = calculateCacUsd(spendAed', cohortSize)
    /\ breakEvenMonth' = findBreakEvenMonth(values, cacUsd', maxMonth)
    /\ breakEvenCells' = {month \in 0..maxMonth : isBreakEven(values, cacUsd', month)}
    /\ called' = TRUE
    /\ UNCHANGED <<pivotVars, cohortSize, cohortMonth, values, maxMonth, marketingSpend,
                   keyVars, ratioVars>>

NextTable == RenderLtvRow

SpecTable == InitTable /\ [][NextTable]_vars

(* monthsDiff on its own *)

InitMonthsDiff ==
    /\ NoPivots
    /\ NoCacCall
    /\ NoTableRow
    /\ startKey \in KeyInputs
    /\ endKey \in KeyInputs
    /\ months = 0
    /\ NoParseCall
    /\ NoRetentionCall
    /\ called = FALSE

MonthsDiff ==
    /\ ~called
    /\ months' = monthsDiff(startKey, endKey)
    /\ called' = TRUE
    /\ UNCHANGED <<pivotVars, cacVars, tableVars, startKey, endKey, raw, parsed, ratioVars>>

NextMonthsDiff == MonthsDiff

SpecMonthsDiff == InitMonthsDiff /\ [][NextMonthsDiff]_vars

(* parseCohortMonthKey on its own *)

InitParse ==
    /\ NoPivots
    /\ NoCacCall
    /\ NoTableRow
    /\ NoMonthsDiffCall
    /\ raw \in RawInputs
    /\ parsed = Returned(InvalidDate, NoKey)
    /\ NoRetentionCall
    /\ called = FALSE

ParseCohortMonthKey ==
    /\ ~called
    /\ parsed' = parseCohortMonthKey(raw)
    /\ called' = TRUE
    /\ UNCHANGED <<pivotVars, cacVars, tableVars, startKey, endKey, months, raw, ratioVars>>

NextParse == ParseCohortMonthKey

SpecParse == InitParse /\ [][NextParse]_vars

(* parseRetention on its own *)

InitRetention ==
    /\ NoPivots
    /\ NoCacCall
    /\ NoTableRow
    /\ NoMonthsDiffCall
    /\ NoParseCall
    /\ val \in RetentionInputs
    /\ ratio = Finite(FALSE, Zero)
    /\ called = FALSE

ParseRetention ==
    /\ ~called
    /\ ratio' = parseRetention(val)
    /\ called' = TRUE
    /\ UNCHANGED <<pivotVars, cacVars, tableVars, keyVars, val>>

NextRetention == ParseRetention

SpecRetention == InitRetention /\ [][NextRetention]_vars

(* The dashboard with its own boundary: lastObservedRetentionMonth is a memo of the     *)
(* retention rows, lastObservedLtvMonth is the same value, and both go to the builders. *)

LoadRetentionRow(row) ==
    /\ Len(retentionRows) + Len(ltvRows) < MaxRows
    /\ retentionRows' = Append(retentionRows, row)
    /\ lastObservedMonth' = lastObservedRetentionMonth(retentionRows')
    /\ UNCHANGED <<ltvRows, filters, cacVars, tableVars, keyVars, ratioVars, called>>
    /\ RenderRetention
    /\ RenderLtv

\* mutant: the sort is applied to the rows argument instead of the array of groups
argumentsAfterBuildSorted(rows, f) ==
    LET sorted == SortByCohortMonth(
                      [i \in 1..Len(rows) |->
                          [cohortMonth |-> rows[i].cohortMonthKey, row |-> rows[i]]],
                      1, <<>>)
    IN  [rows |-> [i \in 1..Len(rows) |-> sorted[i].row], filters |-> f]

\* The arguments as a builder leaves them: rows.filter returns a new array, the loop
\* writes to the entries of byMonth, and the sort is applied to the array that Array.from
\* made; no statement writes to rows, to a row or to filters
argumentsAfterBuild(rows, f) == [rows |-> rows, filters |-> f]

\* a further render with the same rows, criteria and boundary that runs both builders again
Rerender ==
    LET retentionArgs == argumentsAfterBuild(retentionRows, filters)
        ltvArgs == argumentsAfterBuild(ltvRows, retentionArgs.filters)
    IN  /\ retentionPivot' = buildRetentionPivot(retentionRows, filters, lastObservedMonth)
        /\ ltvPivot' = buildLtvPivot(ltvRows, retentionArgs.filters, lastObservedMonth)
        /\ retentionRows' = retentionArgs.rows
        /\ ltvRows' = ltvArgs.rows
        /\ filters' = ltvArgs.filters
        /\ UNCHANGED <<lastObservedMonth, cacVars, tableVars, keyVars, ratioVars, called>>

NextObserved ==
    \/ \E row \in RetentionFacts : LoadRetentionRow(row)
    \/ \E row \in LtvFacts : ReceiveLtvRow(row)
    \/ Rerender

SpecObserved == Init /\ [][NextObserved]_vars

(* ======================================================================= *)
(* Properties                                                              *)
(* ======================================================================= *)

\* a >= b and a <= b on strings
StrGeq(a, b) == ~StrLess(a, b)

StrLeq(a, b) == ~StrLess(b, a)

\* the criteria of the filter predicate that both kinds of fact share
MeetsCriteria(row, f) ==
    /\ row.segment = f.segment
    /\ row.dimension = f.dimension
    /\ IF f.dimension # "overall" THEN row.first_value = f.firstValue
       ELSE row.first_value = "ALL"
    /\ row.metric = f.metric
    /\ f.startMonth = NoKey \/ StrGeq(row.cohortMonthKey, f.startMonth)
    /\ f.endMonth = NoKey \/ StrLeq(row.cohortMonthKey, f.endMonth)

\* the retention facts in the current view, and the LTV facts in it that lie before the boundary
RetentionInView == {i \in 1..Len(retentionRows) : MeetsCriteria(retentionRows[i], filters)}

LtvInView ==
    {i \in 1..Len(ltvRows) :
        /\ MeetsCriteria(ltvRows[i], filters)
        /\ ltvRows[i].measure = filters.measure
        /\ lastObservedMonth = NoKey \/ StrLess(ltvRows[i].cohortMonthKey, lastObservedMonth)}

PivotRowsOf(pivot) == {pivot.rows[i] : i \in 1..Len(pivot.rows)}

BothPivotRows == PivotRowsOf(retentionPivot) \cup PivotRowsOf(ltvPivot)

\* C1: with a known boundary, every offset recorded in a row of either pivot is at most
\* monthsDiff(row.cohortMonth, lastObservedMonth)
C1_Truncation ==
    lastObservedMonth # NoKey =>
        \A r \in BothPivotRows : \A m \in DOMAIN r.values :
            m <= monthsDiff(r.cohortMonth, lastObservedMonth)

\* a cohort of the retention pivot with one fact recorded and another one cut off by the boundary
C1_Witness ==
    /\ lastObservedMonth # NoKey
    /\ \E r \in PivotRowsOf(retentionPivot) : \E i, j \in RetentionInView :
        /\ retentionRows[i].cohortMonthKey = r.cohortMonth
        /\ retentionRows[j].cohortMonthKey = r.cohortMonth
        /\ retentionRows[i].m \in DOMAIN r.values
        /\ retentionRows[j].m > monthsDiff(r.cohortMonth, lastObservedMonth)
        /\ retentionRows[j].m \notin DOMAIN r.values

\* C2: with a known boundary no row of the LTV pivot has a cohort month at or after it, while
\* a retention fact of the view whose cohort month is the boundary still gets its row, cut
\* down to offset 0
C2_LtvBoundaryExclusion ==
    lastObservedMonth # NoKey =>
        /\ \A r \in PivotRowsOf(ltvPivot) : StrLess(r.cohortMonth, lastObservedMonth)
        /\ \A i \in RetentionInView :
            retentionRows[i].cohortMonthKey = lastObservedMonth =>
                \E r \in PivotRowsOf(retentionPivot) :
                    /\ r.cohortMonth = lastObservedMonth
                    /\ DOMAIN r.values \subseteq {0}

\* an LTV fact and a retention fact of the view, both in the boundary month: only the
\* retention pivot has the cohort
C2_Witness ==
    /\ lastObservedMonth # NoKey
    /\ \E i \in 1..Len(ltvRows) :
        /\ MeetsCriteria(ltvRows[i], filters)
        /\ ltvRows[i].measure = filters.measure
        /\ ltvRows[i].cohortMonthKey = lastObservedMonth
    /\ \E i \in RetentionInView : retentionRows[i].cohortMonthKey = lastObservedMonth
    /\ \E r \in PivotRowsOf(retentionPivot) : r.cohortMonth = lastObservedMonth
    /\ \A r \in PivotRowsOf(ltvPivot) : r.cohortMonth # lastObservedMonth

\* C3 as stated: a single fact is kept by its pivot's filter exactly if it meets the
\* criteria (and, for an LTV fact, has the selected measure)
C3_FilterAsStated ==
    /\ Len(retentionRows) = 1 =>
        (retentionPivot.rows # <<>> <=> MeetsCriteria(retentionRows[1], filters))
    /\ Len(ltvRows) = 1 =>
        (ltvPivot.rows # <<>> <=>
            MeetsCriteria(ltvRows[1], filters) /\ ltvRows[1].measure = filters.measure)

\* C3 amended: as stated for a retention fact; an LTV fact must also lie strictly before a
\* known boundary
C3_FilterPredicate ==
    /\ Len(retentionRows) = 1 =>
        (retentionPivot.rows # <<>> <=> MeetsCriteria(retentionRows[1], filters))
    /\ Len(ltvRows) = 1 =>
        (ltvPivot.rows # <<>> <=>
            /\ MeetsCriteria(ltvRows[1], filters)
            /\ ltvRows[1].measure = filters.measure
            /\ lastObservedMonth = NoKey
                 \/ StrLess(ltvRows[1].cohortMonthKey, lastObservedMonth))

\* an LTV fact that meets every listed criterion and is rejected because of the boundary
C3_Witness ==
    /\ Len(ltvRows) = 1
    /\ MeetsCriteria(ltvRows[1], filters)
    /\ ltvRows[1].measure = filters.measure
    /\ filters.dimension = "category"
    /\ lastObservedMonth # NoKey
    /\ StrGeq(ltvRows[1].cohortMonthKey, lastObservedMonth)
    /\ ltvPivot.rows = <<>>

SetMax(S) == CHOOSE x \in S : \A y \in S : y <= x

\* C4: for a non-empty filtered set the retention maxMonth is the largest m of the filtered
\* facts without a boundary and the largest monthsDiff(cohort, boundary) with one; a single
\* cohort c then gives one row with exactly the offsets <= monthsDiff(c, boundary) that
\* have a fact
C4_RetentionMaxMonth ==
    RetentionInView # {} =>
        /\ retentionPivot.maxMonth =
            IF lastObservedMonth = NoKey
            THEN SetMax({retentionRows[i].m : i \in RetentionInView})
            ELSE SetMax({monthsDiff(retentionRows[i].cohortMonthKey, lastObservedMonth) :
                            i \in RetentionInView})
        /\ \A c \in CohortKeys :
            (/\ lastObservedMonth # NoKey
             /\ \A i \in RetentionInView : retentionRows[i].cohortMonthKey = c) =>
                /\ Len(retentionPivot.rows) = 1
                /\ retentionPivot.rows[1].cohortMonth = c
                /\ DOMAIN retentionPivot.rows[1].values =
                     {retentionRows[i].m : i \in
                        {j \in RetentionInView :
                            retentionRows[j].m <= monthsDiff(c, lastObservedMonth)}}
                /\ retentionPivot.maxMonth = monthsDiff(c, lastObservedMonth)

\* a single cohort with recorded offsets whose last column, monthsDiff(c, boundary), has no
\* fact, next to a fact of another view
C4_Witness ==
    /\ lastObservedMonth # NoKey
    /\ Len(retentionPivot.rows) = 1
    /\ DOMAIN retentionPivot.rows[1].values # {}
    /\ retentionPivot.maxMonth > 0
    /\ retentionPivot.maxMonth \notin DOMAIN retentionPivot.rows[1].values
    /\ retentionPivot.maxMonth =
         monthsDiff(retentionPivot.rows[1].cohortMonth, lastObservedMonth)
    /\ Cardinality(RetentionInView) < Len(retentionRows)

\* C5: when no fact is kept by the filter, the pivot is empty with maxMonth 0 (and maxValue 0)
C5_EmptyResult ==
    /\ RetentionInView = {} => retentionPivot = [rows |-> <<>>, maxMonth |-> 0]
    /\ LtvInView = {} => ltvPivot = [rows |-> <<>>, maxMonth |-> 0, maxValue |-> 0]

\* a retention fact with a cohort before a known boundary that the filter rejects
C5_Witness ==
    /\ Len(retentionRows) = 1
    /\ RetentionInView = {}
    /\ lastObservedMonth # NoKey
    /\ monthsDiff(retentionRows[1].cohortMonthKey, lastObservedMonth) > 0
    /\ retentionPivot.rows = <<>>
    /\ retentionPivot.maxMonth = 0

\* the rows are in strictly ascending cohort order and their cohorts are those of the facts
GroupedAndOrdered(pivot, keys) ==
    /\ \A i, j \in 1..Len(pivot.rows) :
        i < j => StrLess(pivot.rows[i].cohortMonth, pivot.rows[j].cohortMonth)
    /\ {pivot.rows[i].cohortMonth : i \in 1..Len(pivot.rows)} = keys

\* C6: the rows of either pivot are in strictly ascending cohortMonth order, one row per
\* distinct cohortMonthKey of the filtered facts
C6_GroupingAndOrder ==
    /\ GroupedAndOrdered(retentionPivot,
                         {retentionRows[i].cohortMonthKey : i \in RetentionInView})
    /\ GroupedAndOrdered(ltvPivot, {ltvRows[i].cohortMonthKey : i \in LtvInView})

\* two retention facts that arrive latest cohort first
C6_Witness ==
    /\ Len(retentionRows) = 2
    /\ RetentionInView = {1, 2}
    /\ StrLess(retentionRows[2].cohortMonthKey, retentionRows[1].cohortMonthKey)
    /\ Len(retentionPivot.rows) = 2
    /\ retentionPivot.rows[1].cohortMonth = retentionRows[2].cohortMonthKey

\* C7: no row of either pivot belongs to the empty (invalid) cohort key
C7_NoMalformedCohort == \A r \in BothPivotRows : r.cohortMonth # NoKey

\* the recorded cells of a pivot, as (cohort, offset, value)
Cells(pivot) ==
    UNION {{<<r.cohortMonth, m, r.values[m]>> : m \in DOMAIN r.values} :
              r \in PivotRowsOf(pivot)}

\* the LTV facts without those of a non-positive value
PositiveLtvRows == SelectSeq(ltvRows, LAMBDA row : row.ltv_per_user > 0)

\* C8: every cell of the LTV pivot holds a value > 0; the facts with a value <= 0 add no
\* cell and do not change maxValue: cells and maxValue are those of the pivot built
\* without these facts
C8_LtvPositiveCells ==
    /\ \A cell \in Cells(ltvPivot) : cell[3] > 0
    /\ LET positive == buildLtvPivot(PositiveLtvRows, filters, lastObservedMonth)
       IN  /\ Cells(ltvPivot) = Cells(positive)
           /\ ltvPivot.maxValue = positive.maxValue

\* a kept fact of value 0 inside the observed window whose cohort has another, recorded cell
C8_Witness ==
    \E i \in LtvInView : \E r \in PivotRowsOf(ltvPivot) :
        /\ ltvRows[i].ltv_per_user <= 0
        /\ r.cohortMonth = ltvRows[i].cohortMonthKey
        /\ lastObservedMonth # NoKey
        /\ ltvRows[i].m <= monthsDiff(r.cohortMonth, lastObservedMonth)
        /\ ltvRows[i].m \notin DOMAIN r.values
        /\ DOMAIN r.values # {}

\* C9: maxValue of the LTV pivot is >= the value of every cell of every row
C9_MaxValueBound == \A cell \in Cells(ltvPivot) : ltvPivot.maxValue >= cell[3]

\* two cells of different value, the larger one recorded first
C9_Witness ==
    /\ Len(ltvRows) = 2
    /\ ltvRows[1].ltv_per_user > ltvRows[2].ltv_per_user
    /\ Cardinality(Cells(ltvPivot)) = 2
    /\ ltvPivot.maxValue = ltvRows[1].ltv_per_user

\* C10: the CAC is undefined when the spend is unknown or the cohort size is <= 0, and
\* otherwise convert(spend) / cohortSize, which is 0 for a spend of 0
C10_CalculateCac ==
    IF ~spendAed.defined \/ cohortSize <= 0 THEN cacUsd = Undefined
    ELSE /\ cacUsd.defined
         /\ cacUsd = DividedBy(Times(AED_TO_USD, spendAed.value), cohortSize)
         /\ spendAed.value = 0 => cacUsd = Zero

\* a known spend of 0 for a cohort of positive size
C10_Witness ==
    /\ spendAed = Spend(0)
    /\ cohortSize > 0
    /\ cacUsd.defined
    /\ cacUsd = Zero

(* ------------------------------ break-even ---------------------------- *)

\* the cell at offset m is present and converts to an amount >= the CAC
Qualifies(m) == m \in DOMAIN values /\ GreaterOrEqual(aedToUsd(values[m]), cacUsd)

SetMin(S) == CHOOSE x \in S : \A y \in S : x <= y

ScenarioValues == 0 :> 100 @@ 1 :> 250 @@ 2 :> 400

\* C12 as stated: for the values 100, 250, 400 and maxMonth 2, a cac of 260 gives 2 and a
\* cac of 500 gives undefined
C12_ScenarioAsStated ==
    (called /\ values = ScenarioValues /\ maxMonth = 2) =>
        /\ cacUsd = ToNumber(260) => breakEvenMonth = Month(2)
        /\ cacUsd = ToNumber(500) => breakEvenMonth = NoMonth

\* C12 amended: the values are converted before the comparison, so the result is 2 for the
\* cac that 260 ledger units convert to and undefined for the cac that 500 ledger units
\* convert to; a cac of 260 or of 500 display units is above every converted value and
\* gives undefined
C12_Scenario ==
    (called /\ values = ScenarioValues /\ maxMonth = 2) =>
        /\ cacUsd = aedToUsd(260) => breakEvenMonth = Month(2)
        /\ cacUsd = aedToUsd(500) => breakEvenMonth = NoMonth
        /\ cacUsd \in {ToNumber(260), ToNumber(500)} => breakEvenMonth = NoMonth

\* the scenario with the cac that 260 ledger units convert to
C12_Witness ==
    /\ called
    /\ values = ScenarioValues
    /\ maxMonth = 2
    /\ cacUsd = aedToUsd(260)
    /\ breakEvenMonth = Month(2)

\* C13: a row whose cohort month has no entry in the spend table, or a table that is not
\* supplied, gives an undefined cac and an undefined break-even month, whatever the values
\* and the cohort size of the row
C13_CacAbsent ==
    (called /\ (~marketingSpend.supplied \/ cohortMonth \notin DOMAIN marketingSpend.spend)) =>
        /\ spendAed = NoSpend
        /\ cacUsd = Undefined
        /\ cacUsd # Zero
        /\ breakEvenMonth = NoMonth
        /\ breakEvenMonth # Month(0)

\* a cohort of positive size with a cell at offset 0 that the supplied table does not know
C13_Witness ==
    /\ called
    /\ marketingSpend.supplied
    /\ DOMAIN marketingSpend.spend # {}
    /\ cohortMonth \notin DOMAIN marketingSpend.spend
    /\ cohortSize > 0
    /\ 0 \in DOMAIN values
    /\ breakEvenMonth = NoMonth

\* the offsets whose cell, times the cohort size, covers the spend
CoveringOffsets ==
    {m \in 0..maxMonth : m \in DOMAIN values /\ values[m] * cohortSize >= spendAed.value}

\* C14: for a known spend and a positive cohort size the break-even offset is the first
\* offset m of 0..maxMonth with a present value v such that v * cohortSize >= spend
C14_UnitConsistency ==
    (called /\ spendAed.defined /\ cohortSize > 0) =>
        breakEvenMonth =
            IF CoveringOffsets = {} THEN NoMonth ELSE Month(SetMin(CoveringOffsets))

(* ------------------------- the builders as calls ------------------------ *)

PairsOf(key) == {ym \in (FirstYear..LastYear) \X (1..12) : KeyOf(ym[1], ym[2]) = key}

\* C16: for valid keys monthsDiff is max(0, (endYear - startYear) * 12 + (endMonth -
\* startMonth)); it is never negative, monthsDiff(a, a) = 0, and it is 0 when a key is empty
\* or has a year or month part without a number
C16_MonthsDiff ==
    called =>
        /\ \A s \in PairsOf(startKey), e \in PairsOf(endKey) :
            months = Max(0, (e[1] - s[1]) * 12 + (e[2] - s[2]))
        /\ months >= 0
        /\ startKey = endKey => months = 0
        /\ (startKey \in UnparsableKeys \/ endKey \in UnparsableKeys) => months = 0

\* from the December of the first year to the January of the last one
C16_Witness ==
    /\ called
    /\ startKey = KeyOf(FirstYear, 12)
    /\ endKey = KeyOf(LastYear, 1)
    /\ months = (LastYear - FirstYear) * 12 - 11

(* ------------------------- observation boundary ------------------------ *)

\* the cohort month keys of the retention rows of offset 0
ZeroOffsetKeys ==
    {retentionRows[i].cohortMonthKey : i \in {j \in 1..Len(retentionRows) : retentionRows[j].m = 0}}

\* C17: lastObservedMonth is the key of the calendar month after the greatest cohort month
\* key of the retention rows with m = 0 (January of the next year after a December); it is
\* empty when there is no such row or when that key is the empty one; and the LTV pivot is
\* built with this boundary
C17_ObservationBoundary ==
    /\ (ZeroOffsetKeys \subseteq {NoKey}) => lastObservedMonth = NoKey
    /\ \A y \in FirstYear..LastYear, m \in 1..12 :
        (/\ KeyOf(y, m) \in ZeroOffsetKeys
         /\ \A k \in ZeroOffsetKeys : StrLeq(k, KeyOf(y, m))) =>
            lastObservedMonth = IF m = 12 THEN KeyOf(y + 1, 1) ELSE KeyOf(y, m + 1)
    /\ ltvPivot = buildLtvPivot(ltvRows, filters, lastObservedMonth)
    /\ \A r \in PivotRowsOf(ltvPivot) :
        lastObservedMonth = NoKey \/ StrLess(r.cohortMonth, lastObservedMonth)

\* the last cohort with an offset-0 fact is a December: the boundary is the January after
\* it, and the LTV pivot shows the December cohort
C17_Witness ==
    /\ Key2024_12 \in ZeroOffsetKeys
    /\ lastObservedMonth = Key2025_01
    /\ Len(ltvPivot.rows) = 1
    /\ ltvPivot.rows[1].cohortMonth = Key2024_12

(* --------------------------- parseCohortMonthKey ----------------------- *)

IsCanonicalKey(key) ==
    /\ Len(key) = 7
    /\ \A i \in {1, 2, 3, 4, 6, 7} : IsDigit(key[i])
    /\ key[5] = "-"
    /\ DigitValue(key[6]) * 10 + DigitValue(key[7]) \in 1..12

\* C18: the key that parseCohortMonthKey returns is the empty key or a canonical YYYY-MM key
\* with a month in 1..12, and a raw date whose month is outside 1..12 gives the empty key
C18_KeyValidity ==
    called =>
        /\ parsed.key = NoKey \/ IsCanonicalKey(parsed.key)
        /\ \A y \in RawYears, m \in {0, 13} : raw \in RawDatesOf(y, m) => parsed.key = NoKey

\* C19: for a year and a month in 1..12, the key of a raw date built from them (with or
\* without a day and a time) splits on '-' into the zero-padded year and the zero-padded
\* two-digit month
C19_KeyRoundTrip ==
    called =>
        \A y \in RawYears, m \in 1..12 :
            raw \in RawDatesOf(y, m) =>
                Split(parsed.key, "-") =
                    <<ZeroPadded(NumberToString(y), 4), ZeroPadded(NumberToString(m), 2)>>

\* the text of s before the first sep
Before(s, sep) ==
    IF IndexFrom(s, sep, 1) = 0 THEN s ELSE SubSeq(s, 1, IndexFrom(s, sep, 1) - 1)

\* the text of s after the first sep, empty when there is none
After(s, sep) ==
    IF IndexFrom(s, sep, 1) = 0 THEN <<>> ELSE SubSeq(s, IndexFrom(s, sep, 1) + 1, Len(s))

\* the text starts with a decimal digit
StartsWithNumber(s) == s # <<>> /\ IsDigit(s[1])

\* C20: parseCohortMonthKey returns for every raw string, and returns the empty key when the
\* year part or the month part of the text before the first blank is not a number
C20_NeverThrows ==
    called =>
        /\ ~parsed.threw
        /\ LET datePortion == Before(raw, " ")
               yearPart == Before(datePortion, "-")
               monthPart == Before(After(datePortion, "-"), "-")
           IN  (~StartsWithNumber(yearPart) \/ ~StartsWithNumber(monthPart)) =>
                   (parsed.key = NoKey /\ ~parsed.date.valid)

\* a raw date with a year and without a month number
C20_Witness ==
    /\ called
    /\ raw = <<"2", "0", "2", "4", "-", "x", "x">>
    /\ ~parsed.threw
    /\ parsed.key = NoKey

(* ------------------------------ parseRetention ------------------------- *)

\* a + b and a - b (for a >= b) on bit strings: bit i receives a carry (a borrow) iff a
\* lower bit j generates one and every bit between j and i passes it on
BitAt(bits, i) == IF i <= Len(bits) THEN bits[i] ELSE 0

AddBits(a, b) ==
    LET n == Max(Len(a), Len(b)) + 1
        carry(i) == IF \E j \in 1..(i - 1) :
                          /\ BitAt(a, j) + BitAt(b, j) = 2
                          /\ \A k \in (j + 1)..(i - 1) : BitAt(a, k) + BitAt(b, k) >= 1
                    THEN 1 ELSE 0
    IN  [i \in 1..n |-> (BitAt(a, i) + BitAt(b, i) + carry(i)) % 2]

SubBits(a, b) ==
    LET borrow(i) == IF \E j \in 1..(i - 1) :
                           /\ BitAt(a, j) < BitAt(b, j)
                           /\ \A k \in (j + 1)..(i - 1) : BitAt(a, k) = BitAt(b, k)
                     THEN 1 ELSE 0
    IN  [i \in 1..Len(a) |-> (BitAt(a, i) - BitAt(b, i) - borrow(i)) % 2]

\* a <= b on bit strings
LessOrEqualBits(a, b) ==
    ~\E i \in 1..Len(a) :
        /\ BitAt(a, i) > BitAt(b, i)
        /\ \A j \in (i + 1)..Max(Len(a), Len(b)) : BitAt(a, j) = BitAt(b, j)

\* |a - b| <= 1e-9 for finite a and b, computed exactly: with both magnitudes written as
\* bits * 2^e, the distance is d * 2^e for a natural d, and d * 2^e <= 10^-9 iff
\* d <= 2^(-e) / 10^9 rounded down
WithinTolerance(a, b) ==
    LET e == IF a.mag.zero THEN b.mag.exp
             ELSE IF b.mag.zero THEN a.mag.exp
             ELSE IF a.mag.exp <= b.mag.exp THEN a.mag.exp ELSE b.mag.exp
        bitsOf(x) == IF x.zero THEN <<>> ELSE Zeros(x.exp - e) \o x.sig
        d == IF a.neg # b.neg THEN AddBits(bitsOf(a.mag), bitsOf(b.mag))
             ELSE IF GreaterOrEqual(a.mag, b.mag) THEN SubBits(bitsOf(a.mag), bitsOf(b.mag))
             ELSE SubBits(bitsOf(b.mag), bitsOf(a.mag))
        limit == IF e >= 0 THEN <<>>
                 ELSE DivNat(Append(Zeros(-e), 1), 1000000000, 1 - e,
                             [quot |-> <<>>, rem |-> 0]).quot
    IN  LessOrEqualBits(d, limit)

\* C21: for every ratio r, parseRetention maps the number r, the text of r and the text of
\* 100 * r followed by "%" to results that differ by at most 1e-9: whichever of the three
\* forms was parsed, the result is within 1e-9 of the result for each other form.
C21_PercentageNormalization ==
    called =>
        \A r \in Ratios :
            val \in FormsOf(r) =>
                \A other \in FormsOf(r) : WithinTolerance(ratio, parseRetention(other))

\* the ratio 0.007 arrived as "0.7%", and 0.7 / 100 is not the Number 0.007: the results
\* agree within the tolerance only
C21_Witness ==
    /\ called
    /\ val = AsPercent([neg |-> FALSE, n |-> 7, decimals |-> 3])
    /\ val.string = <<"0", ".", "7", "%">>
    /\ ratio # parseRetention(AsNumber([neg |-> FALSE, n |-> 7, decimals |-> 3]))
    /\ ratio.mag # Zero

(* --------------------------- cells of the pivots ----------------------- *)

\* the facts that a builder records: in view, not past the boundary of their cohort and,
\* for LTV, of a value > 0
WithinWindow(row) ==
    lastObservedMonth = NoKey \/ row.m <= monthsDiff(row.cohortMonthKey, lastObservedMonth)

RetentionRecorded == {i \in RetentionInView : WithinWindow(retentionRows[i])}

LtvRecorded == {i \in LtvInView : WithinWindow(ltvRows[i]) /\ ltvRows[i].ltv_per_user > 0}

\* the recorded facts of the cohort and offset of rows[i]
SameCell(rows, recorded, i) ==
    {j \in recorded : rows[j].cohortMonthKey = rows[i].cohortMonthKey /\ rows[j].m = rows[i].m}

\* C22: when several recorded facts of one cohort carry the same offset m, the builder
\* returns a pivot whose row of that cohort holds at m the value of the last of them in
\* input order, in the retention pivot and in the LTV pivot.
C22_LastWriteWins ==
    /\ \A i \in RetentionRecorded :
        \E r \in PivotRowsOf(retentionPivot) :
            /\ r.cohortMonth = retentionRows[i].cohortMonthKey
            /\ retentionRows[i].m \in DOMAIN r.values
            /\ r.values[retentionRows[i].m] =
                 retentionRows[SetMax(SameCell(retentionRows, RetentionRecorded, i))].retention
    /\ \A i \in LtvRecorded :
        \E r \in PivotRowsOf(ltvPivot) :
            /\ r.cohortMonth = ltvRows[i].cohortMonthKey
            /\ ltvRows[i].m \in DOMAIN r.values
            /\ r.values[ltvRows[i].m] =
                 ltvRows[SetMax(SameCell(ltvRows, LtvRecorded, i))].ltv_per_user

\* two recorded retention facts of one cohort and offset with different ratios: the cell
\* holds the second ratio
C22_Witness ==
    /\ RetentionRecorded = {1, 2}
    /\ SameCell(retentionRows, RetentionRecorded, 1) = {1, 2}
    /\ retentionRows[1].retention # retentionRows[2].retention
    /\ Len(retentionPivot.rows) = 1
    /\ retentionPivot.rows[1].values[retentionRows[1].m] = retentionRows[2].retention

(* ------------------------- break-even and absent cells ----------------- *)

\* C23: findBreakEvenMonth never returns the offset of an absent cell: a returned offset
\* is one of 0..maxMonth whose cell is present, also for a CAC of 0, which a cell read as
\* zero would reach.
C23_AbsentIsNotZero ==
    (called /\ breakEvenMonth.defined) =>
        /\ breakEvenMonth.value \in DOMAIN values
        /\ breakEvenMonth.value \in 0..maxMonth

\* a CAC of 0 and a row without a cell at offset 0: the result is the first present cell
C23_Witness ==
    /\ called
    /\ cacUsd = Zero
    /\ 0 \notin DOMAIN values
    /\ 1 \notin DOMAIN values
    /\ breakEvenMonth = Month(2)

(* ------------------------- break-even cells of a row ------------------- *)

\* the present values of the row do not decrease with the offset
NonDecreasing ==
    \A m, n \in DOMAIN values : m <= n => values[m] <= values[n]

\* C24: for a row whose present values are non-decreasing in the offset, once
\* findBreakEvenMonth returns offset b, every present cell at an offset in b..maxMonth
\* converts to an amount >= the CAC and no present cell before b does, and the cells that
\* the table marks as break-even are exactly the present cells from b onward.
C24_SingleBreakpoint ==
    (called /\ NonDecreasing /\ breakEvenMonth.defined) =>
        LET b == breakEvenMonth.value
        IN  /\ \A m \in DOMAIN values :
                  m <= maxMonth => (GreaterOrEqual(aedToUsd(values[m]), cacUsd) <=> m >= b)
            /\ breakEvenCells = {m \in DOMAIN values : b <= m /\ m <= maxMonth}

\* a row with cells 1, 5, 5 that breaks even at offset 1: the cell at 0 is unmarked, the
\* cells at 1 and 2 are marked
C24_Witness ==
    /\ called
    /\ DOMAIN values = {0, 1, 2}
    /\ values[0] < values[1]
    /\ NonDecreasing
    /\ maxMonth = 2
    /\ breakEvenMonth = Month(1)
    /\ breakEvenCells = {1, 2}

(* --------------------------- columns of the pivots --------------------- *)

\* C25: without a boundary the maxMonth of the LTV pivot is the largest offset of the
\* recorded facts (0 when none is recorded), so that a fact skipped for a value <= 0 adds
\* no column.
C25_LtvMaxMonthOfRecorded ==
    lastObservedMonth = NoKey =>
        ltvPivot.maxMonth = SetMax({0} \cup {ltvRows[i].m : i \in LtvRecorded})

(* ------------------------ facts ahead of the boundary ------------------ *)

\* C26: with a known boundary, a retention fact whose cohort month is later than the
\* boundary adds no cell to the retention pivot, at any offset, 0 included: the row of
\* such a cohort has no values.
C26_AheadOfWindow ==
    lastObservedMonth # NoKey =>
        \A r \in PivotRowsOf(retentionPivot) :
            monthsDiffUnclamped(r.cohortMonth, lastObservedMonth) < 0 => DOMAIN r.values = {}

(* ------------------------------ maxValue ------------------------------- *)

\* C27: maxValue of the LTV pivot is the largest value of the cells present in the
\* returned rows, and 0 when no cell is present, also when facts of one cohort and offset
\* overwrite one another.
C27_MaxValueTight ==
    ltvPivot.maxValue = SetMax({0} \cup {cell[3] : cell \in Cells(ltvPivot)})

(* ------------------------------ cohort size ---------------------------- *)

\* the first fact of the cohort among the kept facts (inView), in input order
FirstOfCohort(rows, inView, cohort) ==
    rows[SetMin({i \in inView : rows[i].cohortMonthKey = cohort})]

\* C28: the cohortSize of an output row is the cohort_size of the first fact of that
\* cohort in the filtered set, in input order, whatever sizes later facts carry and even
\* when the cell of that first fact is skipped (past the boundary, or an LTV value <= 0).
C28_CohortSizeOfFirstRow ==
    /\ \A r \in PivotRowsOf(retentionPivot) :
        r.cohortSize = FirstOfCohort(retentionRows, RetentionInView, r.cohortMonth).cohort_size
    /\ \A r \in PivotRowsOf(ltvPivot) :
        r.cohortSize = FirstOfCohort(ltvRows, LtvInView, r.cohortMonth).cohort_size

\* two LTV facts of one cohort with different sizes: the first is skipped for its value
\* of 0, the second is recorded, and the row carries the size of the first
C28_Witness ==
    /\ LtvInView = {1, 2}
    /\ ltvRows[1].cohortMonthKey = ltvRows[2].cohortMonthKey
    /\ ltvRows[1].cohort_size # ltvRows[2].cohort_size
    /\ ltvRows[1].ltv_per_user <= 0
    /\ LtvRecorded = {2}
    /\ Len(ltvPivot.rows) = 1
    /\ DOMAIN ltvPivot.rows[1].values = {ltvRows[2].m}
    /\ ltvPivot.rows[1].cohortSize = ltvRows[1].cohort_size

(* --------------------------- cells and columns ------------------------- *)

\* C29: whatever the facts, the criteria and the boundary (empty or not), every offset
\* recorded in a row of either pivot is at most the maxMonth of that pivot, so every cell
\* lies in the columns 0..maxMonth that the table renders and the break-even scan reads.
C29_CellsFitColumns ==
    /\ \A r \in PivotRowsOf(retentionPivot) :
        \A m \in DOMAIN r.values : 0 <= m /\ m <= retentionPivot.maxMonth
    /\ \A r \in PivotRowsOf(ltvPivot) :
        \A m \in DOMAIN r.values : 0 <= m /\ m <= ltvPivot.maxMonth

\* with a boundary, two cohorts in the LTV pivot: the later one has one column, the
\* earlier one a cell in the last column
C29_Witness ==
    /\ lastObservedMonth # NoKey
    /\ Len(ltvPivot.rows) = 2
    /\ ltvPivot.maxMonth > 0
    /\ ltvPivot.maxMonth \in DOMAIN ltvPivot.rows[1].values
    /\ monthsDiff(ltvPivot.rows[2].cohortMonth, lastObservedMonth) < ltvPivot.maxMonth

(* --------------------------- cohorts without cells --------------------- *)

\* C30: every cohort with a fact that passes the filter has an output row with its
\* cohortSize, also when every fact of the cohort is skipped (past the boundary or, for
\* LTV, of a value <= 0); the values of that row are then empty.
C30_CohortsWithoutCells ==
    /\ \A i \in RetentionInView :
        \E r \in PivotRowsOf(retentionPivot) :
            /\ r.cohortMonth = retentionRows[i].cohortMonthKey
            /\ r.cohortSize = FirstOfCohort(retentionRows, RetentionInView, r.cohortMonth).cohort_size
            /\ (\A j \in RetentionRecorded : retentionRows[j].cohortMonthKey # r.cohortMonth)
                    => r.values = <<>>
    /\ \A i \in LtvInView :
        \E r \in PivotRowsOf(ltvPivot) :
            /\ r.cohortMonth = ltvRows[i].cohortMonthKey
            /\ r.cohortSize = FirstOfCohort(ltvRows, LtvInView, r.cohortMonth).cohort_size
            /\ (\A j \in LtvRecorded : ltvRows[j].cohortMonthKey # r.cohortMonth)
                    => r.values = <<>>

\* a retention cohort whose only fact lies past the boundary, and an LTV cohort whose
\* only fact has the value 0: both have a row without cells
C30_Witness ==
    /\ Len(retentionRows) = 1
    /\ Len(ltvRows) = 1
    /\ lastObservedMonth # NoKey
    /\ RetentionInView = {1}
    /\ RetentionRecorded = {}
    /\ LtvInView = {1}
    /\ ltvRows[1].ltv_per_user <= 0
    /\ Len(retentionPivot.rows) = 1
    /\ retentionPivot.rows[1].values = <<>>
    /\ Len(ltvPivot.rows) = 1
    /\ ltvPivot.rows[1].values = <<>>

====
